---- MODULE Spec2Model ----
(***************************************************************************)
(* Model of run_workflow.py, the Attune AI GitHub Action runner.           *)
(*                                                                         *)
(* One run of the script is one behaviour: parse_args, main's mkdir, the   *)
(* selected runner (run_code_review or run_release_prep) step by step,     *)
(* main's except handler, the GITHUB_OUTPUT publication and the            *)
(* critical-issue gate.                                                    *)
(*                                                                         *)
(* The collaborators are outside the repository and are modelled by what   *)
(* the script can observe of them: `git diff` returns any exit status and  *)
(* any standard output, the engine returns any report or raises, and every *)
(* statement inside main's try block may raise.  Text is modelled as text: *)
(* files are sequences of lines, lines are strings built with the same     *)
(* concatenations as the f-strings, and the diff output is a sequence of   *)
(* characters that is stripped, split and filtered as the code does.       *)
(*                                                                         *)
(* Environment assumption: the statements outside the try block succeed    *)
(* (the output directory can be created, the error summary can be written  *)
(* and GITHUB_OUTPUT, when set, names a file that can be appended to).     *)
(***************************************************************************)
EXTENDS Integers, Sequences, FiniteSets, TLC

VARIABLES
    pc,              \* position of the run in main / the selected runner
    argv,            \* command line: flag -> value, for the flags given
    environ,         \* os.environ, restricted to GITHUB_OUTPUT
    world0,          \* the filesystem before the run (never changes)
    args,            \* <<>> or <<Namespace>> returned by parse_args
    dir_exists,      \* does the output directory exist
    dir,             \* output directory: file name -> sequence of lines
    gh_file,         \* lines of the file GITHUB_OUTPUT names
    stdout,          \* lines printed on standard output
    stderr,          \* lines printed on standard error
    exit_status,     \* <<>> while running, <<status>> once exited
    engine,          \* number of WorkflowEngine objects constructed
    engine_runs,     \* number of calls of engine.run
    proc,            \* <<>> or <<CompletedProcess>> of git diff
    changed_files,   \* changed_files of run_code_review
    report,          \* <<>> or <<report>> returned by engine.run
    result,          \* <<>> or <<dict>> returned by the runner
    exc              \* <<>> or <<text>> of the exception caught by main

vars == <<pc, argv, environ, world0, args, dir_exists, dir, gh_file, stdout,
          stderr, exit_status, engine, engine_runs, proc, changed_files,
          report, result, exc>>

(***************************************************************************)
(* Bounds of the model.                                                    *)
(***************************************************************************)
MaxOut == 3      \* longest standard output of git diff, in characters
MaxCount == 1    \* largest critical count an engine report carries
MaxGates == 2    \* largest gates_total a release-prep report carries

(***************************************************************************)
(* Text helpers: str() of an integer, membership in a sequence.            *)
(***************************************************************************)
Digit(d) ==
    CASE d = 0 -> "0" [] d = 1 -> "1" [] d = 2 -> "2" [] d = 3 -> "3"
      [] d = 4 -> "4" [] d = 5 -> "5" [] d = 6 -> "6" [] d = 7 -> "7"
      [] d = 8 -> "8" [] d = 9 -> "9"

RECURSIVE StrNat(_)
StrNat(n) ==
    IF n < 10 THEN Digit(n) ELSE StrNat(n \div 10) \o Digit(n % 10)

Str(n) ==
    IF n < 0 THEN "-" \o StrNat(0 - n) ELSE StrNat(n)

Range(s) ==
    {s[i] : i \in 1..Len(s)}

(***************************************************************************)
(* parse_args                                                              *)
(***************************************************************************)
WorkflowChoices ==
    {"code-review", "release-prep"}

FailOnCriticalValues ==
    {"true", "True", "false", ""}

\* The command lines of the model: the valid ones, with and without
\* --fail-on-critical, and the ones argparse rejects.
ValidArgv ==
    UNION {
        { [f \in {"--workflow", "--output-dir"} |->
              IF f = "--workflow" THEN w ELSE "out"] }
        \cup
        { [f \in {"--workflow", "--output-dir", "--fail-on-critical"} |->
              IF f = "--workflow" THEN w
              ELSE IF f = "--output-dir" THEN "out" ELSE foc]
          : foc \in FailOnCriticalValues }
        : w \in WorkflowChoices }

InvalidArgv ==
    { [f \in {"--workflow", "--output-dir"} |->
          IF f = "--workflow" THEN "lint" ELSE "out"],
      [f \in {"--output-dir"} |-> "out"],
      [f \in {"--workflow"} |-> "code-review"] }

\* Variant: the choices of --workflow are not enforced.
ArgvAccepted_no_choices(a) ==
    /\ "--workflow" \in DOMAIN a
    /\ "--output-dir" \in DOMAIN a

ArgvAccepted(a) ==
    /\ "--workflow" \in DOMAIN a
    /\ a["--workflow"] \in WorkflowChoices
    /\ "--output-dir" \in DOMAIN a

Namespace(a) ==
    [workflow |-> a["--workflow"],
     config |-> IF "--config" \in DOMAIN a THEN a["--config"] ELSE "",
     fail_on_critical |->
         IF "--fail-on-critical" \in DOMAIN a
         THEN a["--fail-on-critical"] ELSE "true",
     output_dir |-> a["--output-dir"]]

(***************************************************************************)
(* The changed-file list: result.stdout.strip().split("\n"), keeping the   *)
(* non-empty parts.  The standard output is a sequence of characters.      *)
(***************************************************************************)
NL == "\n"

Chars ==
    {"a", " ", NL}

IsSpace(c) ==
    c \in {" ", NL}

RECURSIVE LStrip(_)
LStrip(s) ==
    IF s = <<>> THEN <<>>
    ELSE IF IsSpace(Head(s)) THEN LStrip(Tail(s)) ELSE s

RECURSIVE RStrip(_)
RStrip(s) ==
    IF s = <<>> THEN <<>>
    ELSE IF IsSpace(s[Len(s)]) THEN RStrip(SubSeq(s, 1, Len(s) - 1)) ELSE s

Strip(s) ==
    RStrip(LStrip(s))

RECURSIVE Split(_, _)
Split(s, sep) ==
    IF \A i \in 1..Len(s) : s[i] # sep THEN <<s>>
    ELSE LET i == CHOOSE j \in 1..Len(s) :
                      /\ s[j] = sep
                      /\ \A k \in 1..(j - 1) : s[k] # sep
         IN  <<SubSeq(s, 1, i - 1)>> \o Split(SubSeq(s, i + 1, Len(s)), sep)

NonEmpty(f) ==
    f # <<>>

\* Variant: a failed diff is treated as "nothing changed".
ChangedFiles_checked(p) ==
    IF p.returncode # 0 THEN <<>>
    ELSE SelectSeq(Split(Strip(p.stdout), NL), NonEmpty)

ChangedFiles(p) ==
    SelectSeq(Split(Strip(p.stdout), NL), NonEmpty)

StdoutsUpTo(n) ==
    UNION { [1..k -> Chars] : k \in 0..n }

(***************************************************************************)
(* The reports the engine may return.                                      *)
(***************************************************************************)
CodeReviewReports ==
    { [markdown |-> "# review " \o Str(c) \o "/" \o Str(w),
       issue_count |-> c + w,
       critical_count |-> c,
       warning_count |-> w,
       info_count |-> 0,
       tier_used |-> "cheap",
       cost_savings |-> "$" \o Str(c + 1)]
      : c \in 0..MaxCount, w \in {0, 2} }

GatePairs ==
    { pt \in (0..MaxGates) \X (0..MaxGates) : pt[1] <= pt[2] }

ReleasePrepReportOf(p, t) ==
    [markdown |-> "# release " \o Str(p) \o "/" \o Str(t),
       security_status |-> "clean",
       test_coverage |-> "80%",
       changelog |-> (p = t),
       gates_passed |-> p,
       gates_total |-> t,
       tier_used |-> "cheap",
       cost_savings |-> "$" \o Str(t)]

ReleasePrepReports ==
    { ReleasePrepReportOf(pt[1], pt[2]) : pt \in GatePairs }

(***************************************************************************)
(* The texts the script writes.                                            *)
(***************************************************************************)
\* Variant: the issue count is printed where the file count belongs.
CodeReviewSummary_issue_for_files(files, r) ==
    << "## Attune AI Code Review", "",
       "**Files reviewed:** " \o Str(r.issue_count), "",
       "**Issues found:** " \o Str(r.issue_count), "",
       "**Critical:** " \o Str(r.critical_count) \o " | "
           \o "**Warning:** " \o Str(r.warning_count) \o " | "
           \o "**Info:** " \o Str(r.info_count), "",
       "**Cost tier used:** " \o r.tier_used, "",
       "**Estimated savings:** " \o r.cost_savings, "",
       "See full report in artifacts." >>

CodeReviewSummary(files, r) ==
    << "## Attune AI Code Review", "",
       "**Files reviewed:** " \o Str(Len(files)), "",
       "**Issues found:** " \o Str(r.issue_count), "",
       "**Critical:** " \o Str(r.critical_count) \o " | "
           \o "**Warning:** " \o Str(r.warning_count) \o " | "
           \o "**Info:** " \o Str(r.info_count), "",
       "**Cost tier used:** " \o r.tier_used, "",
       "**Estimated savings:** " \o r.cost_savings, "",
       "See full report in artifacts." >>

ReleasePrepSummary(r) ==
    << "## Attune AI Release Prep", "",
       "**Security audit:** " \o r.security_status, "",
       "**Test coverage:** " \o r.test_coverage, "",
       "**Changelog generated:** " \o (IF r.changelog THEN "Yes" ELSE "No"), "",
       "**Quality gates passed:** " \o Str(r.gates_passed) \o "/"
           \o Str(r.gates_total), "",
       "**Cost tier used:** " \o r.tier_used, "",
       "**Estimated savings:** " \o r.cost_savings, "",
       "See full report in artifacts." >>

\* The backquote of the source text is written ' here.
BQ ==
    "'"

ErrorSummary(workflow, e) ==
    << "## Attune AI - Error", "",
       "Workflow " \o BQ \o workflow \o BQ \o " failed:", "",
       BQ \o BQ \o BQ, e, BQ \o BQ \o BQ >>

NoChangesResult ==
    [summary |-> "No changed files detected.",
     issues_found |-> 0,
     cost_saved |-> "N/A"]

CodeReviewResult(files, r) ==
    [summary |-> Str(r.issue_count) \o " issues found in "
                     \o Str(Len(files)) \o " files",
     issues_found |-> r.issue_count,
     critical_count |-> r.critical_count,
     cost_saved |-> r.cost_savings]

\* Variant: failed quality gates are reported as critical issues.
ReleasePrepResult_with_critical(r) ==
    [summary |-> "Release prep complete: " \o Str(r.gates_passed) \o "/"
                     \o Str(r.gates_total) \o " gates passed",
     issues_found |-> r.gates_total - r.gates_passed,
     critical_count |-> r.gates_total - r.gates_passed,
     cost_saved |-> r.cost_savings]

ReleasePrepResult(r) ==
    [summary |-> "Release prep complete: " \o Str(r.gates_passed) \o "/"
                     \o Str(r.gates_total) \o " gates passed",
     issues_found |-> r.gates_total - r.gates_passed,
     cost_saved |-> r.cost_savings]

\* dict.get(key, default)
Get(d, key, default) ==
    IF key \in DOMAIN d THEN d[key] ELSE default

\* A line "key=value" of the GITHUB_OUTPUT file is the pair <<key, value>>.
OutputLines(output_dir, res) ==
    << <<"report", output_dir>>,
       <<"summary", res.summary>>,
       <<"issues_found", Str(res.issues_found)>>,
       <<"cost_saved", Get(res, "cost_saved", "N/A")>> >>

\* Variant: the flag is compared without regard to case.
GateFires_any_case(a, res) ==
    /\ a.fail_on_critical \in {"true", "True"}
    /\ Get(res, "critical_count", 0) > 0

GateFires(a, res) ==
    a.fail_on_critical = "true" /\ Get(res, "critical_count", 0) > 0

GateError(res) ==
    "::error::Found " \o Str(res.critical_count) \o " critical issues. "
        \o "Set fail_on_critical to false to ignore."

CompletedLine(res) ==
    "Attune workflow completed: " \o res.summary

FailedLine(e) ==
    "::error::Attune workflow failed: " \o e

UsageError ==
    "usage: run_workflow.py: error"

(***************************************************************************)
(* The filesystem: Path.write_text creates or overwrites one file.         *)
(***************************************************************************)
ReportFiles ==
    {"code-review-report.md", "release-prep-report.md"}

SummaryFile ==
    "summary.md"

FileNames ==
    ReportFiles \cup {SummaryFile}

Stale ==
    <<"left by an earlier run">>

WriteText(d, name, lines) ==
    [f \in DOMAIN d \cup {name} |-> IF f = name THEN lines ELSE d[f]]

NoFiles ==
    [f \in {} |-> <<>>]

\* What the run may find: no output directory, an empty one, or one that
\* holds the three files of an earlier run; GITHUB_OUTPUT unset, empty, or
\* naming a file that is empty or already holds a line.
Worlds ==
    { [dir_exists |-> FALSE, dir |-> NoFiles, gh_file |-> g] :
          g \in {<<>>, << <<"earlier", "1">> >>} }
    \cup
    { [dir_exists |-> TRUE, dir |-> d, gh_file |-> g] :
          d \in {NoFiles, [f \in FileNames |-> Stale]},
          g \in {<<>>, << <<"earlier", "1">> >>} }

Environs ==
    { [k \in {} |-> ""],
      [k \in {"GITHUB_OUTPUT"} |-> ""],
      [k \in {"GITHUB_OUTPUT"} |-> "gh_out"] }

(***************************************************************************)
(* Initial state: the process has started, nothing has run.                *)
(***************************************************************************)
Init ==
    /\ pc = "parse_args"
    /\ argv \in ValidArgv \cup InvalidArgv
    /\ environ \in Environs
    /\ world0 \in Worlds
    /\ Get(environ, "GITHUB_OUTPUT", "") = "" => world0.gh_file = <<>>
    /\ args = <<>>
    /\ dir_exists = world0.dir_exists
    /\ dir = world0.dir
    /\ gh_file = world0.gh_file
    /\ stdout = <<>>
    /\ stderr = <<>>
    /\ exit_status = <<>>
    /\ engine = 0
    /\ engine_runs = 0
    /\ proc = <<>>
    /\ changed_files = <<>>
    /\ report = <<>>
    /\ result = <<>>
    /\ exc = <<>>

(***************************************************************************)
(* main, lines 136-145: parse the arguments, create the output directory,  *)
(* select the runner.                                                      *)
(***************************************************************************)
main_parse_args ==
    /\ pc = "parse_args"
    /\ IF ArgvAccepted(argv)
       THEN /\ args' = <<Namespace(argv)>>
            /\ pc' = "mkdir"
            /\ UNCHANGED <<stderr, exit_status>>
       ELSE /\ stderr' = Append(stderr, UsageError)
            /\ exit_status' = <<2>>
            /\ pc' = "exited"
            /\ UNCHANGED args
    /\ UNCHANGED <<argv, environ, world0, dir_exists, dir, gh_file, stdout,
                   engine, engine_runs, proc, changed_files, report, result,
                   exc>>

main_mkdir ==
    /\ pc = "mkdir"
    /\ dir_exists' = TRUE
    /\ pc' = IF args[1].workflow = "code-review" THEN "cr_engine"
             ELSE "rp_engine"
    /\ UNCHANGED <<argv, environ, world0, args, dir, gh_file, stdout, stderr,
                   exit_status, engine, engine_runs, proc, changed_files,
                   report, result, exc>>

\* A statement of the try block raises: control moves to main's handler.
Raise(text) ==
    /\ exc' = <<text>>
    /\ pc' = "except"

(***************************************************************************)
(* run_code_review, lines 40-95.                                           *)
(***************************************************************************)
run_code_review_engine ==
    /\ pc = "cr_engine"
    /\ \/ /\ engine' = engine + 1
          /\ pc' = "cr_workflow"
          /\ UNCHANGED exc
       \/ /\ Raise("WorkflowEngine failed")
          /\ UNCHANGED engine
    /\ UNCHANGED <<argv, environ, world0, args, dir_exists, dir, gh_file,
                   stdout, stderr, exit_status, engine_runs, proc,
                   changed_files, report, result>>

run_code_review_get_workflow ==
    /\ pc = "cr_workflow"
    /\ \/ /\ pc' = "cr_diff"
          /\ UNCHANGED exc
       \/ Raise("get_workflow failed")
    /\ UNCHANGED <<argv, environ, world0, args, dir_exists, dir, gh_file,
                   stdout, stderr, exit_status, engine, engine_runs, proc,
                   changed_files, report, result>>

\* subprocess.run without check=True: the exit status is kept in the
\* CompletedProcess and never read; only a failure to start git raises.
run_code_review_diff ==
    /\ pc = "cr_diff"
    /\ \/ \E rc \in {0, 128}, out \in StdoutsUpTo(MaxOut) :
              LET p == [returncode |-> rc, stdout |-> out] IN
              /\ proc' = <<p>>
              /\ changed_files' = ChangedFiles(p)
              /\ pc' = "cr_check"
              /\ UNCHANGED exc
       \/ /\ Raise("git not found")
          /\ UNCHANGED <<proc, changed_files>>
    /\ UNCHANGED <<argv, environ, world0, args, dir_exists, dir, gh_file,
                   stdout, stderr, exit_status, engine, engine_runs, report,
                   result>>

run_code_review_no_changes ==
    /\ pc = "cr_check"
    /\ changed_files = <<>>
    /\ result' = <<NoChangesResult>>
    /\ pc' = "publish"
    /\ UNCHANGED <<argv, environ, world0, args, dir_exists, dir, gh_file,
                   stdout, stderr, exit_status, engine, engine_runs, proc,
                   changed_files, report, exc>>

\* Variant: the engine is run whatever the changed-file list holds.
run_code_review_run_unguarded ==
    /\ pc = "cr_check"
    /\ engine_runs' = engine_runs + 1
    /\ \/ \E r \in CodeReviewReports :
              /\ report' = <<r>>
              /\ pc' = "cr_report"
              /\ UNCHANGED exc
       \/ /\ Raise("engine.run failed")
          /\ UNCHANGED report
    /\ UNCHANGED <<argv, environ, world0, args, dir_exists, dir, gh_file,
                   stdout, stderr, exit_status, engine, proc, changed_files,
                   result>>

run_code_review_run ==
    /\ pc = "cr_check"
    /\ changed_files # <<>>
    /\ engine_runs' = engine_runs + 1
    /\ \/ \E r \in CodeReviewReports :
              /\ report' = <<r>>
              /\ pc' = "cr_report"
              /\ UNCHANGED exc
       \/ /\ Raise("engine.run failed")
          /\ UNCHANGED report
    /\ UNCHANGED <<argv, environ, world0, args, dir_exists, dir, gh_file,
                   stdout, stderr, exit_status, engine, proc, changed_files,
                   result>>

run_code_review_write_report ==
    /\ pc = "cr_report"
    /\ \/ /\ dir' = WriteText(dir, "code-review-report.md",
                              <<report[1].markdown>>)
          /\ pc' = "cr_summary"
          /\ UNCHANGED exc
       \/ /\ Raise("cannot write report")
          /\ UNCHANGED dir
    /\ UNCHANGED <<argv, environ, world0, args, dir_exists, gh_file, stdout,
                   stderr, exit_status, engine, engine_runs, proc,
                   changed_files, report, result>>

run_code_review_write_summary ==
    /\ pc = "cr_summary"
    /\ \/ /\ dir' = WriteText(dir, SummaryFile,
                              CodeReviewSummary(changed_files, report[1]))
          /\ pc' = "cr_return"
          /\ UNCHANGED exc
       \/ /\ Raise("cannot write summary")
          /\ UNCHANGED dir
    /\ UNCHANGED <<argv, environ, world0, args, dir_exists, gh_file, stdout,
                   stderr, exit_status, engine, engine_runs, proc,
                   changed_files, report, result>>

run_code_review_return ==
    /\ pc = "cr_return"
    /\ \/ /\ result' = <<CodeReviewResult(changed_files, report[1])>>
          /\ pc' = "publish"
          /\ UNCHANGED exc
       \/ /\ Raise("report has no such field")
          /\ UNCHANGED result
    /\ UNCHANGED <<argv, environ, world0, args, dir_exists, dir, gh_file,
                   stdout, stderr, exit_status, engine, engine_runs, proc,
                   changed_files, report>>

(***************************************************************************)
(* run_release_prep, lines 98-132.                                         *)
(***************************************************************************)
run_release_prep_engine ==
    /\ pc = "rp_engine"
    /\ \/ /\ engine' = engine + 1
          /\ pc' = "rp_workflow"
          /\ UNCHANGED exc
       \/ /\ Raise("WorkflowEngine failed")
          /\ UNCHANGED engine
    /\ UNCHANGED <<argv, environ, world0, args, dir_exists, dir, gh_file,
                   stdout, stderr, exit_status, engine_runs, proc,
                   changed_files, report, result>>

run_release_prep_get_workflow ==
    /\ pc = "rp_workflow"
    /\ \/ /\ pc' = "rp_run"
          /\ UNCHANGED exc
       \/ Raise("get_workflow failed")
    /\ UNCHANGED <<argv, environ, world0, args, dir_exists, dir, gh_file,
                   stdout, stderr, exit_status, engine, engine_runs, proc,
                   changed_files, report, result>>

run_release_prep_run ==
    /\ pc = "rp_run"
    /\ engine_runs' = engine_runs + 1
    /\ \/ \E r \in ReleasePrepReports :
              /\ report' = <<r>>
              /\ pc' = "rp_report"
              /\ UNCHANGED exc
       \/ /\ Raise("engine.run failed")
          /\ UNCHANGED report
    /\ UNCHANGED <<argv, environ, world0, args, dir_exists, dir, gh_file,
                   stdout, stderr, exit_status, engine, proc, changed_files,
                   result>>

\* Variant: the report is written under the code-review file name.
run_release_prep_write_report_wrong_name ==
    /\ pc = "rp_report"
    /\ \/ /\ dir' = WriteText(dir, "code-review-report.md",
                              <<report[1].markdown>>)
          /\ pc' = "rp_summary"
          /\ UNCHANGED exc
       \/ /\ Raise("cannot write report")
          /\ UNCHANGED dir
    /\ UNCHANGED <<argv, environ, world0, args, dir_exists, gh_file, stdout,
                   stderr, exit_status, engine, engine_runs, proc,
                   changed_files, report, result>>

run_release_prep_write_report ==
    /\ pc = "rp_report"
    /\ \/ /\ dir' = WriteText(dir, "release-prep-report.md",
                              <<report[1].markdown>>)
          /\ pc' = "rp_summary"
          /\ UNCHANGED exc
       \/ /\ Raise("cannot write report")
          /\ UNCHANGED dir
    /\ UNCHANGED <<argv, environ, world0, args, dir_exists, gh_file, stdout,
                   stderr, exit_status, engine, engine_runs, proc,
                   changed_files, report, result>>

run_release_prep_write_summary ==
    /\ pc = "rp_summary"
    /\ \/ /\ dir' = WriteText(dir, SummaryFile, ReleasePrepSummary(report[1]))
          /\ pc' = "rp_return"
          /\ UNCHANGED exc
       \/ /\ Raise("cannot write summary")
          /\ UNCHANGED dir
    /\ UNCHANGED <<argv, environ, world0, args, dir_exists, gh_file, stdout,
                   stderr, exit_status, engine, engine_runs, proc,
                   changed_files, report, result>>

run_release_prep_return ==
    /\ pc = "rp_return"
    /\ \/ /\ result' = <<ReleasePrepResult(report[1])>>
          /\ pc' = "publish"
          /\ UNCHANGED exc
       \/ /\ Raise("report has no such field")
          /\ UNCHANGED result
    /\ UNCHANGED <<argv, environ, world0, args, dir_exists, dir, gh_file,
                   stdout, stderr, exit_status, engine, engine_runs, proc,
                   changed_files, report>>

(***************************************************************************)
(* main, lines 149-158: the failure boundary.                              *)
(***************************************************************************)
\* Variant: the handler exits without writing the error summary.
main_except_keeps_summary ==
    /\ pc = "except"
    /\ stderr' = Append(stderr, FailedLine(exc[1]))
    /\ exit_status' = <<1>>
    /\ pc' = "exited"
    /\ UNCHANGED <<argv, environ, world0, args, dir_exists, dir, gh_file,
                   stdout, engine, engine_runs, proc, changed_files, report,
                   result, exc>>

main_except ==
    /\ pc = "except"
    /\ dir' = WriteText(dir, SummaryFile,
                        ErrorSummary(args[1].workflow, exc[1]))
    /\ stderr' = Append(stderr, FailedLine(exc[1]))
    /\ exit_status' = <<1>>
    /\ pc' = "exited"
    /\ UNCHANGED <<argv, environ, world0, args, dir_exists, gh_file, stdout,
                   engine, engine_runs, proc, changed_files, report, result,
                   exc>>

(***************************************************************************)
(* main, lines 160-167: publication through GITHUB_OUTPUT.                 *)
(***************************************************************************)
\* Variant: the output file is opened for writing, not for appending.
main_publish_truncating ==
    /\ pc = "publish"
    /\ gh_file' =
           IF Get(environ, "GITHUB_OUTPUT", "") # ""
           THEN OutputLines(args[1].output_dir, result[1])
           ELSE gh_file
    /\ pc' = "gate"
    /\ UNCHANGED <<argv, environ, world0, args, dir_exists, dir, stdout,
                   stderr, exit_status, engine, engine_runs, proc,
                   changed_files, report, result, exc>>

main_publish ==
    /\ pc = "publish"
    /\ gh_file' =
           IF Get(environ, "GITHUB_OUTPUT", "") # ""
           THEN gh_file \o OutputLines(args[1].output_dir, result[1])
           ELSE gh_file
    /\ pc' = "gate"
    /\ UNCHANGED <<argv, environ, world0, args, dir_exists, dir, stdout,
                   stderr, exit_status, engine, engine_runs, proc,
                   changed_files, report, result, exc>>

(***************************************************************************)
(* main, lines 169-178: the critical-issue gate and the normal end.        *)
(***************************************************************************)
\* Variant: a gate failure is reported like a hard failure, summary included.
main_gate_error_summary ==
    /\ pc = "gate"
    /\ IF GateFires(args[1], result[1])
       THEN /\ stderr' = Append(stderr, GateError(result[1]))
            /\ dir' = WriteText(dir, SummaryFile,
                                ErrorSummary(args[1].workflow,
                                             GateError(result[1])))
            /\ exit_status' = <<1>>
            /\ UNCHANGED stdout
       ELSE /\ stdout' = Append(stdout, CompletedLine(result[1]))
            /\ exit_status' = <<0>>
            /\ UNCHANGED <<stderr, dir>>
    /\ pc' = "exited"
    /\ UNCHANGED <<argv, environ, world0, args, dir_exists, gh_file,
                   engine, engine_runs, proc, changed_files, report, result,
                   exc>>

main_gate ==
    /\ pc = "gate"
    /\ IF GateFires(args[1], result[1])
       THEN /\ stderr' = Append(stderr, GateError(result[1]))
            /\ exit_status' = <<1>>
            /\ UNCHANGED stdout
       ELSE /\ stdout' = Append(stdout, CompletedLine(result[1]))
            /\ exit_status' = <<0>>
            /\ UNCHANGED stderr
    /\ pc' = "exited"
    /\ UNCHANGED <<argv, environ, world0, args, dir_exists, dir, gh_file,
                   engine, engine_runs, proc, changed_files, report, result,
                   exc>>

Next ==
    \/ main_parse_args
    \/ main_mkdir
    \/ run_code_review_engine
    \/ run_code_review_get_workflow
    \/ run_code_review_diff
    \/ run_code_review_no_changes
    \/ run_code_review_run
    \/ run_code_review_write_report
    \/ run_code_review_write_summary
    \/ run_code_review_return
    \/ run_release_prep_engine
    \/ run_release_prep_get_workflow
    \/ run_release_prep_run
    \/ run_release_prep_write_report
    \/ run_release_prep_write_summary
    \/ run_release_prep_return
    \/ main_except
    \/ main_publish
    \/ main_gate

Spec ==
    Init /\ [][Next]_vars

(***************************************************************************)
(* Vocabulary of the properties.                                           *)
(***************************************************************************)
Exited ==
    pc = "exited"

Parsed ==
    args # <<>>

Raised ==
    exc # <<>>

Completed ==
    Exited /\ Parsed /\ ~Raised

GithubOutputSet ==
    "GITHUB_OUTPUT" \in DOMAIN environ /\ environ["GITHUB_OUTPUT"] # ""

\* The critical count the engine reported in this run, 0 when it reported none.
ReportedCritical ==
    IF report # <<>> /\ "critical_count" \in DOMAIN report[1]
    THEN report[1].critical_count ELSE 0

OwnReport ==
    IF args[1].workflow = "code-review" THEN "code-review-report.md"
    ELSE "release-prep-report.md"

OtherReport ==
    IF args[1].workflow = "code-review" THEN "release-prep-report.md"
    ELSE "code-review-report.md"

\* The file is as the run found it: absent, or with the earlier content.
Untouched(f) ==
    /\ f \in DOMAIN dir <=> f \in DOMAIN world0.dir
    /\ f \in DOMAIN dir => dir[f] = world0.dir[f]

ErrorSummaryWritten ==
    /\ SummaryFile \in DOMAIN dir
    /\ dir[SummaryFile][1] = "## Attune AI - Error"
    /\ exc[1] \in Range(dir[SummaryFile])

SuccessSummary ==
    IF args[1].workflow = "code-review"
    THEN CodeReviewSummary(changed_files, report[1])
    ELSE ReleasePrepSummary(report[1])

\* The lines this run added to the GITHUB_OUTPUT file, and their keys.
PriorKept ==
    /\ Len(gh_file) >= Len(world0.gh_file)
    /\ SubSeq(gh_file, 1, Len(world0.gh_file)) = world0.gh_file

Appended ==
    SubSeq(gh_file, Len(world0.gh_file) + 1, Len(gh_file))

AppendedKeys ==
    [i \in 1..Len(Appended) |-> Appended[i][1]]

FourOutputs ==
    /\ PriorKept
    /\ Len(Appended) = 4
    /\ \A k \in {"report", "summary", "issues_found", "cost_saved"} :
           Cardinality({i \in 1..4 : AppendedKeys[i] = k}) = 1

\* The output directory and the GITHUB_OUTPUT file of a run that returned
\* from its runner, written without reference to fail_on_critical or to
\* the exit status: what the run with the gate disabled leaves.
ArtifactsWithGateDisabled ==
    << IF report = <<>> THEN world0.dir
       ELSE WriteText(WriteText(world0.dir, OwnReport, <<report[1].markdown>>),
                      SummaryFile, SuccessSummary),
       IF GithubOutputSet
       THEN world0.gh_file \o OutputLines(args[1].output_dir, result[1])
       ELSE world0.gh_file >>

\* Some character of the diff output is not white space.
DiffPrintedAPath ==
    \E i \in 1..Len(proc[1].stdout) : proc[1].stdout[i] \notin {" ", NL}

FixedNoChangesResult ==
    [summary |-> "No changed files detected.",
     issues_found |-> 0,
     cost_saved |-> "N/A"]

(***************************************************************************)
(* C1: with fail-on-critical equal to the literal "true" and a positive    *)
(* reported critical count the exit status is non-zero; with any other     *)
(* value of fail-on-critical a run whose workflow path did not raise       *)
(* exits 0, whatever the critical count.                                   *)
(***************************************************************************)
C1_FailOnCriticalGate ==
    (Exited /\ Parsed) =>
        /\ (args[1].fail_on_critical = "true" /\ ReportedCritical > 0)
               => exit_status \notin {<<>>, <<0>>}
        /\ (args[1].fail_on_critical # "true" /\ ~Raised)
               => exit_status = <<0>>

C1_Witness ==
    /\ Completed
    /\ args[1].fail_on_critical = "True"
    /\ ReportedCritical > 0
    /\ exit_status = <<0>>

(***************************************************************************)
(* C2: a run in which a step of the workflow path raised ends with         *)
(* summary.md holding the Error heading and the exception text, and with a *)
(* non-zero exit status; no success summary survives it.                   *)
(***************************************************************************)
C2_ErrorSummaryOnException ==
    (Exited /\ Raised) =>
        /\ exit_status \notin {<<>>, <<0>>}
        /\ ErrorSummaryWritten
        /\ report # <<>> => dir[SummaryFile] # SuccessSummary

C2_Witness ==
    /\ Exited
    /\ exc = <<"report has no such field">>
    /\ report # <<>>
    /\ ErrorSummaryWritten

(***************************************************************************)
(* C3: in the code-review workflow an empty changed-file list gives the    *)
(* fixed result and engine.run is not called in that run.                  *)
(***************************************************************************)
C3_NoChangedFiles ==
    (proc # <<>> /\ changed_files = <<>>) =>
        /\ engine_runs = 0
        /\ report = <<>>
        /\ pc \in {"publish", "gate", "exited"}
               => result = <<FixedNoChangesResult>>

C3_Witness ==
    /\ Completed
    /\ proc # <<>>
    /\ proc[1].stdout # <<>>
    /\ changed_files = <<>>
    /\ result = <<FixedNoChangesResult>>
    /\ engine_runs = 0

(***************************************************************************)
(* C4, as claimed: every run past argument parsing ends with exactly one   *)
(* report file, the one of its workflow, and a summary file in the output  *)
(* directory.                                                              *)
(***************************************************************************)
C4_OneReportOneSummary ==
    (Exited /\ Parsed) =>
        /\ DOMAIN dir \cap ReportFiles = {OwnReport}
        /\ SummaryFile \in DOMAIN dir

(***************************************************************************)
(* C4, amended: a run past argument parsing writes no report file but the  *)
(* one of its workflow.  It writes that report when the engine returned    *)
(* one and the report write did not raise; it writes the success summary   *)
(* when it did not raise and the engine returned a report, the error       *)
(* summary when it raised, and neither file when the changed-file list is  *)
(* empty.                                                                  *)
(***************************************************************************)
C4_FilesWrittenPerRun ==
    (Exited /\ Parsed) =>
        /\ Untouched(OtherReport)
        /\ IF report # <<>> /\ exc # <<"cannot write report">>
           THEN /\ OwnReport \in DOMAIN dir
                /\ dir[OwnReport] = <<report[1].markdown>>
           ELSE Untouched(OwnReport)
        /\ IF Raised THEN ErrorSummaryWritten
           ELSE IF report # <<>>
                THEN /\ SummaryFile \in DOMAIN dir
                     /\ dir[SummaryFile] = SuccessSummary
                ELSE Untouched(SummaryFile)

C4_Witness ==
    /\ Completed
    /\ proc # <<>>
    /\ changed_files = <<>>
    /\ exit_status = <<0>>
    /\ DOMAIN dir = {}

(***************************************************************************)
(* C5, as claimed: with GITHUB_OUTPUT set, every run past argument parsing *)
(* appends one report, one summary, one issues_found and one cost_saved    *)
(* line after the prior content, whatever its terminal state.              *)
(***************************************************************************)
C5_FourLinesEveryRun ==
    (Exited /\ Parsed /\ GithubOutputSet) => FourOutputs

(***************************************************************************)
(* C5, amended: with GITHUB_OUTPUT set, a run whose workflow path returned *)
(* (success or gate failure) appends exactly those four lines after the    *)
(* unaltered prior content; a run that ends in hard failure leaves the     *)
(* file as it was.                                                         *)
(***************************************************************************)
C5_FourLinesWhenReturned ==
    (Exited /\ Parsed /\ GithubOutputSet) =>
        IF Raised THEN gh_file = world0.gh_file ELSE FourOutputs

C5_Witness ==
    /\ Completed
    /\ GithubOutputSet
    /\ world0.gh_file # <<>>
    /\ exit_status = <<1>>
    /\ FourOutputs

(***************************************************************************)
(* C6, as claimed: a gate failure leaves every published output, the       *)
(* console output included, as the same run with the gate disabled leaves  *)
(* it; only the exit status differs.                                       *)
(***************************************************************************)
C6_OnlyExitStatusDiffers ==
    (Completed /\ exit_status = <<1>>) =>
        /\ <<dir, gh_file>> = ArtifactsWithGateDisabled
        /\ stdout = <<CompletedLine(result[1])>>
        /\ stderr = <<>>

(***************************************************************************)
(* C6, amended: a gate failure leaves the report file, the success summary *)
(* and the GITHUB_OUTPUT lines as the same run with the gate disabled      *)
(* leaves them, all written before the exit with status 1; it differs in   *)
(* the exit status, in the error annotation on standard error and in the   *)
(* missing completion line on standard output.                             *)
(***************************************************************************)
C6_GateFailureKeepsArtifacts ==
    Completed =>
        /\ <<dir, gh_file>> = ArtifactsWithGateDisabled
        /\ exit_status \in {<<0>>, <<1>>}
        /\ exit_status = <<1>> =>
               /\ stdout = <<>>
               /\ stderr = <<"::error::Found " \o Str(ReportedCritical)
                                \o " critical issues. "
                                \o "Set fail_on_critical to false to ignore.">>
        /\ exit_status = <<0>> =>
               /\ stdout = <<"Attune workflow completed: " \o result[1].summary>>
               /\ stderr = <<>>

C6_Witness ==
    /\ Completed
    /\ exit_status = <<1>>
    /\ GithubOutputSet
    /\ world0.dir # NoFiles
    /\ dir[SummaryFile] = SuccessSummary

(***************************************************************************)
(* C7: a run with rejected arguments exits 2 before the output directory   *)
(* is created or any step runs; every other run ends in exactly one of     *)
(* success (exit 0), gate failure (exit 1, critical issues, no exception)  *)
(* and hard failure (exit 1, exception); none exits 0 after an exception   *)
(* or a triggered gate.                                                    *)
(***************************************************************************)
C7_TerminalStates ==
    /\ ~Exited => exit_status = <<>>
    /\ (Exited /\ argv \in InvalidArgv) =>
           /\ exit_status = <<2>>
           /\ ~Parsed
           /\ dir_exists = world0.dir_exists
           /\ dir = world0.dir
           /\ gh_file = world0.gh_file
           /\ engine = 0 /\ engine_runs = 0 /\ proc = <<>>
    /\ (Exited /\ argv \notin InvalidArgv) =>
           LET success == exit_status = <<0>> /\ ~Raised
                              /\ ~(args[1].fail_on_critical = "true"
                                       /\ ReportedCritical > 0)
               gate == exit_status = <<1>> /\ ~Raised /\ ReportedCritical > 0
               hard == exit_status = <<1>> /\ Raised
           IN  /\ Parsed
               /\ Cardinality({t \in {"success", "gate", "hard"} :
                      \/ t = "success" /\ success
                      \/ t = "gate" /\ gate
                      \/ t = "hard" /\ hard}) = 1

C7_Witness ==
    /\ Exited
    /\ "--workflow" \in DOMAIN argv
    /\ argv["--workflow"] = "lint"
    /\ exit_status = <<2>>
    /\ ~dir_exists

(***************************************************************************)
(* C8: for a non-empty changed-file list, once the code-review runner has  *)
(* written its files, code-review-report.md holds the markdown of the      *)
(* engine's report and summary.md names the number of changed files and    *)
(* the issue, critical, warning and info counts of that report.            *)
(***************************************************************************)
C8_ReportAndSummaryContent ==
    (Parsed /\ ~Raised /\ pc \in {"cr_return", "publish", "gate", "exited"}
        /\ args[1].workflow = "code-review" /\ report # <<>>) =>
        /\ dir["code-review-report.md"] = <<report[1].markdown>>
        /\ ("**Files reviewed:** " \o Str(Len(changed_files)))
               \in Range(dir[SummaryFile])
        /\ ("**Issues found:** " \o Str(report[1].issue_count))
               \in Range(dir[SummaryFile])
        /\ ("**Critical:** " \o Str(report[1].critical_count)
               \o " | **Warning:** " \o Str(report[1].warning_count)
               \o " | **Info:** " \o Str(report[1].info_count))
               \in Range(dir[SummaryFile])

C8_Witness ==
    /\ Completed
    /\ changed_files = << <<"a">>, <<"a">> >>
    /\ report # <<>>
    /\ report[1].issue_count = 3
    /\ report[1].critical_count = 1
    /\ "**Files reviewed:** 2" \in Range(dir[SummaryFile])
    /\ "**Issues found:** 3" \in Range(dir[SummaryFile])
    /\ exit_status = <<1>>

(***************************************************************************)
(* C9, as claimed: a run whose diff command failed never ends in the       *)
(* no-changed-files success result.                                        *)
(***************************************************************************)
C9_FailedDiffNeverNoChanges ==
    (Exited /\ proc # <<>> /\ proc[1].returncode # 0) =>
        ~(result = <<FixedNoChangesResult>> /\ exit_status = <<0>>)

(***************************************************************************)
(* C9, amended: the exit status of the diff command is not consulted.  The *)
(* changed-file list comes from what the command printed: when a failed    *)
(* diff printed a path the engine is run on the list, and when it printed  *)
(* nothing but white space the run ends in the no-changed-files success    *)
(* result without running the engine.                                      *)
(***************************************************************************)
C9_FailedDiffFollowsStdout ==
    (Exited /\ proc # <<>> /\ proc[1].returncode # 0) =>
        IF DiffPrintedAPath
        THEN /\ changed_files # <<>>
             /\ engine_runs = 1
             /\ result # <<FixedNoChangesResult>>
        ELSE /\ changed_files = <<>>
             /\ engine_runs = 0
             /\ result = <<FixedNoChangesResult>>
             /\ exit_status = <<0>>

C9_Witness ==
    /\ Exited
    /\ proc # <<>>
    /\ proc[1].returncode # 0
    /\ proc[1].stdout = <<>>
    /\ result = <<FixedNoChangesResult>>
    /\ exit_status = <<0>>

(***************************************************************************)
(* C10: the release-prep result carries no critical count, so a            *)
(* release-prep run whose path returned exits 0 without a gate error, for  *)
(* every fail-on-critical and every gates_passed/gates_total pair.         *)
(***************************************************************************)
C10_ReleasePrepNeverGated ==
    (Completed /\ args[1].workflow = "release-prep") =>
        /\ "critical_count" \notin DOMAIN result[1]
        /\ exit_status = <<0>>
        /\ stderr = <<>>

C10_Witness ==
    /\ Completed
    /\ args[1].workflow = "release-prep"
    /\ args[1].fail_on_critical = "true"
    /\ report[1].gates_passed < report[1].gates_total
    /\ result[1].issues_found > 0
    /\ exit_status = <<0>>

====
